---------------------------- MODULE Spec2Model ----------------------------
(***************************************************************************)
(* A model of crush's dynamic value type (src/lang/value/mod.rs): the      *)
(* Value sum type with to_string, value_type, file_expand, materialize,    *)
(* cast, Hash, PartialEq and PartialOrd, and the draining of a TableStream  *)
(* by concurrent holders of a cloned handle; and two commands that send     *)
(* Values: the binary type's methods (src/lib/types/binary.rs) and the seq *)
(* producer (src/lib/stream/seq.rs).                                       *)
(*                                                                         *)
(* Strings are sequences of character codes (Unicode scalar values), so    *)
(* that parsing, formatting, UTF-8 encoding and lexicographic comparison   *)
(* are computed rather than assumed.                                       *)
(***************************************************************************)
EXTENDS Integers, Sequences, FiniteSets, TLC

VARIABLES
    a,          \* the Value an operation is applied to (self)
    b,          \* the second operand (other), or the value a chained call was applied to
    ty,         \* the ValueType argument of the last cast
    op,         \* the operation applied last
    res,        \* what it returned
    into,       \* the vector handed to file_expand, as it was before the call
    types,      \* the schema of the shared TableStream
    script,     \* rows the producer has still to send
    chan,       \* rows in flight in the channel
    open,       \* TRUE while the producer still holds the sending side
    sent,       \* rows the producer has sent so far, in order
    cons,       \* the consumers holding a clone of the TableStream handle
    exhausted,  \* TRUE once a recv on some clone has reported exhaustion
    this,       \* context.this of a command
    arguments,  \* context.arguments of a command
    output,     \* what the command has sent on context.output so far, in order
    inflight,   \* what it has sent and the receiving side has not taken yet
    receiver,   \* TRUE while the receiving side of context.output is held
    pc,         \* where the command is: "idle", "start", "loop", or the command it has returned from
    seq_i,      \* the loop variable i of seq
    ret         \* what the command returned

valueVars == <<a, b, ty, op, res, into>>
streamVars == <<types, script, chan, open, sent, cons, exhausted>>
commandVars == <<this, arguments, output, inflight, receiver, pc, seq_i, ret>>
vars ==
    <<a, b, ty, op, res, into, types, script, chan, open, sent, cons, exhausted,
      this, arguments, output, inflight, receiver, pc, seq_i, ret>>

-----------------------------------------------------------------------------
(* Bounds of the model.                                                    *)

MaxLen == 3        \* longest Text drawn as an input
MaxRows == 3       \* most rows a producer sends
ChanCap == 1       \* capacity of the bounded channel
MaxCount == 4      \* largest count handed to seq

-----------------------------------------------------------------------------
(* Characters and strings.                                                 *)

Ascii == <<" ", "!", "QUOTE", "#", "$", "%", "&", "'", "(", ")", "*", "+", ",", "-", ".", "/",
           "0", "1", "2", "3", "4", "5", "6", "7", "8", "9", ":", ";", "<", "=", ">", "?",
           "@", "A", "B", "C", "D", "E", "F", "G", "H", "I", "J", "K", "L", "M", "N", "O",
           "P", "Q", "R", "S", "T", "U", "V", "W", "X", "Y", "Z", "[", "BACKSLASH", "]", "^", "_",
           "BACKTICK", "a", "b", "c", "d", "e", "f", "g", "h", "i", "j", "k", "l", "m", "n", "o",
           "p", "q", "r", "s", "t", "u", "v", "w", "x", "y", "z", "{", "|", "}", "~">>

\* The code of a printable ASCII character.
Code(c) == 31 + (CHOOSE i \in 1..Len(Ascii) : Ascii[i] = c)

\* A string literal, written as the sequence of its characters.
S(cs) == [i \in 1..Len(cs) |-> Code(cs[i])]

RECURSIVE Join(_, _)
\* [String]::join(sep)
Join(parts, sep) ==
    IF parts = <<>> THEN <<>>
    ELSE IF Len(parts) = 1 THEN parts[1]
    ELSE parts[1] \o sep \o Join(Tail(parts), sep)

RECURSIVE Flatten(_)
Flatten(parts) == IF parts = <<>> THEN <<>> ELSE parts[1] \o Flatten(Tail(parts))

RECURSIVE SeqCmp(_, _)
\* Ord::cmp of two sequences of integers (str, [u8], Path by bytes): lexicographic.
SeqCmp(x, y) ==
    IF x = <<>> /\ y = <<>> THEN "Equal"
    ELSE IF x = <<>> THEN "Less"
    ELSE IF y = <<>> THEN "Greater"
    ELSE IF x[1] < y[1] THEN "Less"
    ELSE IF x[1] > y[1] THEN "Greater"
    ELSE SeqCmp(Tail(x), Tail(y))

IntCmp(x, y) == IF x < y THEN "Less" ELSE IF x > y THEN "Greater" ELSE "Equal"

Reverse(o) == IF o = "Less" THEN "Greater" ELSE IF o = "Greater" THEN "Less" ELSE o

IsDigit(c) == c >= 48 /\ c <= 57

RECURSIVE NatToStr(_)
NatToStr(n) == IF n < 10 THEN <<48 + n>> ELSE NatToStr(n \div 10) \o <<48 + (n % 10)>>

\* i128::to_string
IntToStr(i) == IF i < 0 THEN <<45>> \o NatToStr(-i) ELSE NatToStr(i)

RECURSIVE DigitsToNat(_)
DigitsToNat(ds) ==
    IF ds = <<>> THEN 0 ELSE 10 * DigitsToNat(SubSeq(ds, 1, Len(ds) - 1)) + (ds[Len(ds)] - 48)

RECURSIVE StripZeros(_)
StripZeros(ds) == IF Len(ds) > 1 /\ ds[1] = 48 THEN StripZeros(Tail(ds)) ELSE ds

\* The decimal digits of 2^127 - 1 (i128::MAX) and of 2^127 (-i128::MIN).
I128MaxDigits == S(<<"1","7","0","1","4","1","1","8","3","4","6","0","4","6","9","2","3","1","7",
                     "3","1","6","8","7","3","0","3","7","1","5","8","8","4","1","0","5","7","2","7">>)
I128MinDigits == S(<<"1","7","0","1","4","1","1","8","3","4","6","0","4","6","9","2","3","1","7",
                     "3","1","6","8","7","3","0","3","7","1","5","8","8","4","1","0","5","7","2","8">>)

\* Whether the magnitude written by digits ds exceeds the limit written by lim.
Exceeds(ds, lim) ==
    LET d == StripZeros(ds)
    IN  Len(d) > Len(lim) \/ (Len(d) = Len(lim) /\ SeqCmp(d, lim) = "Greater")

-----------------------------------------------------------------------------
(* ValueType, the type descriptor (value_type.rs), and ColumnType.         *)

T(name) == [t |-> name]
ListType(e) == [t |-> "List", elem |-> e]
DictType(k, v) == [t |-> "Dict", key |-> k, val |-> v]
TableStreamType(cols) == [t |-> "TableStream", cols |-> cols]
TableType(cols) == [t |-> "Table", cols |-> cols]
StructType(cols) == [t |-> "Struct", cols |-> cols]

\* ColumnType::named
Column(name, cell_type) == [name |-> name, cell_type |-> cell_type]

\* The variants of ValueType in declaration order: the rank Ord compares first.
TypeVariants == <<"Text", "Integer", "Time", "Duration", "Field", "Glob", "Regex", "Command",
                  "Closure", "TableStream", "File", "Table", "Struct", "List", "Dict", "Scope",
                  "Bool", "Float", "Empty", "BinaryStream", "Binary", "Type">>

TypeRank(vt) == CHOOSE i \in 1..Len(TypeVariants) : TypeVariants[i] = vt.t

RECURSIVE TypeCmp(_, _)
RECURSIVE ColsCmp(_, _)
\* Ord for ValueType: the variant's rank, then the parameters.
TypeCmp(t1, t2) ==
    IF TypeRank(t1) # TypeRank(t2) THEN IntCmp(TypeRank(t1), TypeRank(t2))
    ELSE IF t1.t = "List" THEN TypeCmp(t1.elem, t2.elem)
    ELSE IF t1.t = "Dict" THEN
        (IF TypeCmp(t1.key, t2.key) # "Equal" THEN TypeCmp(t1.key, t2.key)
         ELSE TypeCmp(t1.val, t2.val))
    ELSE IF t1.t \in {"TableStream", "Table", "Struct"} THEN ColsCmp(t1.cols, t2.cols)
    ELSE "Equal"

\* Ord for Vec<ColumnType>: lexicographic, each column by name and then by type.
ColsCmp(c1, c2) ==
    IF c1 = <<>> /\ c2 = <<>> THEN "Equal"
    ELSE IF c1 = <<>> THEN "Less"
    ELSE IF c2 = <<>> THEN "Greater"
    ELSE IF SeqCmp(c1[1].name, c2[1].name) # "Equal" THEN SeqCmp(c1[1].name, c2[1].name)
    ELSE IF TypeCmp(c1[1].cell_type, c2[1].cell_type) # "Equal"
         THEN TypeCmp(c1[1].cell_type, c2[1].cell_type)
    ELSE ColsCmp(Tail(c1), Tail(c2))

\* ValueType::is_hashable
is_hashable(vt) ==
    vt.t \in {"Text", "Integer", "Time", "Field", "Glob", "Regex", "File", "Duration",
              "Bool", "Binary", "Command"}

RECURSIVE TypeMaterialize(_)
\* ValueType::materialize and ColumnType::materialize: the type of the materialized value.
TypeMaterialize(vt) ==
    IF vt.t = "TableStream"
    THEN TableType([i \in 1..Len(vt.cols) |->
                      Column(vt.cols[i].name, TypeMaterialize(vt.cols[i].cell_type))])
    ELSE IF vt.t \in {"Table", "Struct"}
    THEN [vt EXCEPT !.cols = [i \in 1..Len(vt.cols) |->
                      Column(vt.cols[i].name, TypeMaterialize(vt.cols[i].cell_type))]]
    ELSE IF vt.t = "BinaryStream" THEN T("Binary")
    ELSE IF vt.t = "List" THEN ListType(TypeMaterialize(vt.elem))
    ELSE IF vt.t = "Dict" THEN DictType(TypeMaterialize(vt.key), TypeMaterialize(vt.val))
    ELSE vt

ColumnsMaterialize(cols) ==
    [i \in 1..Len(cols) |-> Column(cols[i].name, TypeMaterialize(cols[i].cell_type))]

TypeNames == <<S(<<"t","e","x","t">>), S(<<"i","n","t","e","g","e","r">>), S(<<"t","i","m","e">>),
               S(<<"d","u","r","a","t","i","o","n">>), S(<<"f","i","e","l","d">>),
               S(<<"g","l","o","b">>), S(<<"r","e","g","e","x">>), S(<<"c","o","m","m","a","n","d">>),
               S(<<"c","l","o","s","u","r","e">>), S(<<"t","a","b","l","e","_","s","t","r","e","a","m">>),
               S(<<"f","i","l","e">>), S(<<"t","a","b","l","e">>), S(<<"s","t","r","u","c","t">>),
               S(<<"l","i","s","t">>), S(<<"d","i","c","t">>), S(<<"s","c","o","p","e">>),
               S(<<"b","o","o","l">>), S(<<"f","l","o","a","t">>), S(<<"e","m","p","t","y">>),
               S(<<"b","i","n","a","r","y","_","s","t","r","e","a","m">>),
               S(<<"b","i","n","a","r","y">>), S(<<"t","y","p","e">>)>>

\* ValueType::to_string: the type's name (its parameters are left out).
TypeToString(vt) == TypeNames[TypeRank(vt)]

-----------------------------------------------------------------------------
(* Value, the sum type (mod.rs 32-57). A string payload is a sequence of   *)
(* character codes, a Binary payload a sequence of bytes.                  *)

Text(s) == [tag |-> "Text", s |-> s]
Integer(i) == [tag |-> "Integer", i |-> i]
Time(t) == [tag |-> "Time", time |-> t]
Duration(d) == [tag |-> "Duration", dur |-> d]
Field(segs) == [tag |-> "Field", segs |-> segs]
Glob(pattern) == [tag |-> "Glob", s |-> pattern]
Regex(source) == [tag |-> "Regex", s |-> source]
Command(id) == [tag |-> "Command", id |-> id]
Closure(id) == [tag |-> "Closure", id |-> id]
ConditionCommand(id) == [tag |-> "ConditionCommand", id |-> id]
\* A TableStream held by one owner: its schema and the rows still to be received
\* from a channel whose sending side is already dropped.
TableStream(cols, rows) == [tag |-> "TableStream", cols |-> cols, rows |-> rows]
File(p) == [tag |-> "File", s |-> p]
Table(cols, rows) == [tag |-> "Table", cols |-> cols, rows |-> rows]
Struct(cols, cells) == [tag |-> "Struct", cols |-> cols, cells |-> cells]
List(elem, cells) == [tag |-> "List", elem |-> elem, cells |-> cells]
Dict(key, val, entries) == [tag |-> "Dict", key |-> key, val |-> val, entries |-> entries]
Scope(id) == [tag |-> "Scope", id |-> id]
Bool(v) == [tag |-> "Bool", bool |-> v]
\* An f64 with an integral value, as sign and magnitude (so that -0.0 is a value).
Float(neg, mag) == [tag |-> "Float", neg |-> neg, mag |-> mag]
Empty == [tag |-> "Empty"]
BinaryStream(bytes) == [tag |-> "BinaryStream", bytes |-> bytes]
Binary(bytes) == [tag |-> "Binary", bytes |-> bytes]
Type(vt) == [tag |-> "Type", vt |-> vt]

\* Value::value_type
value_type(v) ==
    CASE v.tag = "Text" -> T("Text")
      [] v.tag = "Integer" -> T("Integer")
      [] v.tag = "Time" -> T("Time")
      [] v.tag = "Field" -> T("Field")
      [] v.tag = "Glob" -> T("Glob")
      [] v.tag = "Regex" -> T("Regex")
      [] v.tag = "Command" -> T("Command")
      [] v.tag = "ConditionCommand" -> T("Command")
      [] v.tag = "File" -> T("File")
      [] v.tag = "TableStream" -> TableStreamType(v.cols)
      [] v.tag = "Table" -> TableType(v.cols)
      [] v.tag = "Struct" -> StructType(v.cols)
      [] v.tag = "Closure" -> T("Closure")
      [] v.tag = "List" -> ListType(v.elem)
      [] v.tag = "Duration" -> T("Duration")
      [] v.tag = "Scope" -> T("Scope")
      [] v.tag = "Bool" -> T("Bool")
      [] v.tag = "Dict" -> DictType(v.key, v.val)
      [] v.tag = "Float" -> T("Float")
      [] v.tag = "Empty" -> T("Empty")
      [] v.tag = "BinaryStream" -> T("BinaryStream")
      [] v.tag = "Binary" -> T("Binary")
      [] v.tag = "Type" -> T("Type")

-----------------------------------------------------------------------------
(* Results and errors (errors.rs).                                         *)

Ok(v) == [ok |-> TRUE, v |-> v]
\* error(msg): a CrushError of the generic kind.
error(msg) == [ok |-> FALSE, kind |-> "GenericError", msg |-> msg]
\* argument_error(msg): a CrushError of the argument kind.
argument_error(msg) == [ok |-> FALSE, kind |-> "ArgumentError", msg |-> msg]
\* to_crush_error: a foreign error becomes a generic CrushError carrying its text.
to_crush_error(r) == IF r.ok THEN r ELSE error(r.msg)

-----------------------------------------------------------------------------
(* Collaborators: integer and float parsing, the regex and glob engines,   *)
(* UTF-8, and the file system.                                             *)

\* str::parse::<i128>: an optional sign, then one or more decimal digits, in range.
parse_i128(s) ==
    IF s = <<>> THEN [ok |-> FALSE, msg |-> "cannot parse integer from empty string"]
    ELSE LET signed == s[1] \in {43, 45}
             neg == s[1] = 45
             digits == IF signed THEN Tail(s) ELSE s
         IN  IF digits = <<>> \/ \E i \in 1..Len(digits) : ~IsDigit(digits[i])
             THEN [ok |-> FALSE, msg |-> "invalid digit found in string"]
             ELSE IF Exceeds(digits, IF neg THEN I128MinDigits ELSE I128MaxDigits)
             THEN [ok |-> FALSE, msg |-> "number too large or too small to fit in target type"]
             ELSE Ok(IF neg THEN -DigitsToNat(digits) ELSE DigitsToNat(digits))

\* f64::from_str, on the strings of the model's alphabet: a signed run of digits.
parse_f64(s) ==
    LET signed == s # <<>> /\ s[1] \in {43, 45}
        digits == IF signed THEN Tail(s) ELSE s
    IN  IF digits = <<>> \/ \E i \in 1..Len(digits) : ~IsDigit(digits[i])
        THEN [ok |-> FALSE, msg |-> "invalid float literal"]
        ELSE Ok([neg |-> signed /\ s[1] = 45, mag |-> DigitsToNat(digits)])

\* f64::to_string of an integral value.
FloatToStr(f) == IF f.neg THEN <<45>> \o NatToStr(f.mag) ELSE NatToStr(f.mag)

\* Regex::new succeeds unless the pattern opens with a repetition operator.
RegexCompiles(s) == s = <<>> \/ s[1] \notin {42, 43, 63}

RegexNew(s) ==
    IF RegexCompiles(s) THEN Ok(Regex(s))
    ELSE [ok |-> FALSE, msg |-> "repetition operator missing expression"]

RECURSIVE GlobMatches(_, _)
\* Glob::matches: * is any run of characters other than /, ? is one of them.
GlobMatches(p, s) ==
    IF p = <<>> THEN s = <<>>
    ELSE IF p[1] = 42
    THEN GlobMatches(Tail(p), s) \/ (s # <<>> /\ s[1] # 47 /\ GlobMatches(p, Tail(s)))
    ELSE IF p[1] = 63 THEN s # <<>> /\ s[1] # 47 /\ GlobMatches(Tail(p), Tail(s))
    ELSE s # <<>> /\ s[1] = p[1] /\ GlobMatches(Tail(p), Tail(s))

\* The UTF-8 encoding of one scalar value.
Utf8Char(c) ==
    IF c < 128 THEN <<c>>
    ELSE IF c < 2048 THEN <<192 + (c \div 64), 128 + (c % 64)>>
    ELSE IF c < 65536 THEN <<224 + (c \div 4096), 128 + ((c \div 64) % 64), 128 + (c % 64)>>
    ELSE <<240 + (c \div 262144), 128 + ((c \div 4096) % 64), 128 + ((c \div 64) % 64),
           128 + (c % 64)>>

\* str::bytes
Utf8Encode(s) == Flatten([i \in 1..Len(s) |-> Utf8Char(s[i])])

IsCont(x) == x >= 128 /\ x <= 191

RECURSIVE Utf8Decode(_)
\* String::from_utf8
Utf8Decode(bs) ==
    LET bad == [ok |-> FALSE, msg |-> "invalid utf-8 sequence"]
        rest(n, c) == LET r == Utf8Decode(SubSeq(bs, n + 1, Len(bs)))
                      IN  IF r.ok THEN Ok(<<c>> \o r.v) ELSE bad
    IN  IF bs = <<>> THEN Ok(<<>>)
        ELSE IF bs[1] < 128 THEN rest(1, bs[1])
        ELSE IF bs[1] >= 194 /\ bs[1] <= 223 /\ Len(bs) >= 2 /\ IsCont(bs[2])
        THEN rest(2, (bs[1] - 192) * 64 + (bs[2] - 128))
        ELSE IF bs[1] >= 224 /\ bs[1] <= 239 /\ Len(bs) >= 3 /\ IsCont(bs[2]) /\ IsCont(bs[3])
        THEN LET c == (bs[1] - 224) * 4096 + (bs[2] - 128) * 64 + (bs[3] - 128)
             IN  IF c >= 2048 /\ ~(c >= 55296 /\ c <= 57343) THEN rest(3, c) ELSE bad
        ELSE IF bs[1] >= 240 /\ bs[1] <= 244 /\ Len(bs) >= 4
                /\ IsCont(bs[2]) /\ IsCont(bs[3]) /\ IsCont(bs[4])
        THEN LET c == (bs[1] - 240) * 262144 + (bs[2] - 128) * 4096 + (bs[3] - 128) * 64
                      + (bs[4] - 128)
             IN  IF c >= 65536 /\ c <= 1114111 THEN rest(4, c) ELSE bad
        ELSE bad

\* The file system: the working directory is /, which holds the files d and 1.
FsFiles == <<S(<<"1">>), S(<<"d">>)>>

RECURSIVE Components(_, _)
\* The non-empty components of a path; cur is the component being read.
Components(p, cur) ==
    IF p = <<>> THEN (IF cur = <<>> THEN <<>> ELSE <<cur>>)
    ELSE IF p[1] = 47 THEN (IF cur = <<>> THEN <<>> ELSE <<cur>>) \o Components(Tail(p), <<>>)
    ELSE Components(Tail(p), cur \o <<p[1]>>)

\* Path::canonicalize: the absolute path without repeated separators, if it exists.
canonicalize(p) ==
    LET cs == Components(p, <<>>)
        isFile == Len(cs) = 1 /\ \E i \in 1..Len(FsFiles) : FsFiles[i] = cs[1]
    IN  IF p = <<>> THEN [ok |-> FALSE]
        ELSE IF cs = <<>> THEN Ok(<<47>>)
        ELSE IF isFile /\ p[Len(p)] # 47 THEN Ok(<<47>> \o cs[1])
        ELSE [ok |-> FALSE]

RECURSIVE GlobFiles(_, _)
\* Glob::glob_files: the files of the working directory the pattern matches.
GlobFiles(pattern, files) ==
    IF files = <<>> THEN <<>>
    ELSE (IF GlobMatches(pattern, files[1]) THEN <<files[1]>> ELSE <<>>)
         \o GlobFiles(pattern, Tail(files))

-----------------------------------------------------------------------------
(* Value::to_string (mod.rs 59-91).                                        *)

\* fn hex(v: u8): the two nibbles, each formatted with {} (as a decimal number).
hex(v) == NatToStr(v \div 16) \o NatToStr(v % 16)

\* The to_string of Time, Duration, Struct, Closure, List, Scope and Dict is the
\* collaborator's; only that it is some string matters here.
ExternalToString(v) == S(<<"<">>) \o TypeToString(value_type(v)) \o S(<<">">>)

\* Value::to_string
to_string(v) ==
    CASE v.tag = "Text" -> v.s
      [] v.tag = "Integer" -> IntToStr(v.i)
      [] v.tag = "Field" -> S(<<"%">>) \o Join(v.segs, S(<<".">>))
      [] v.tag = "Glob" -> S(<<"*", "{">>) \o v.s \o S(<<"}">>)
      [] v.tag = "Regex" -> S(<<"r","e","g","e","x","{">>) \o v.s \o S(<<"}">>)
      [] v.tag = "Command" -> S(<<"C","o","m","m","a","n","d">>)
      [] v.tag = "ConditionCommand" -> S(<<"C","o","m","m","a","n","d">>)
      [] v.tag = "File" -> v.s
      [] v.tag = "Table" -> S(<<"<","R","o","w","s",">">>)
      [] v.tag = "TableStream" -> S(<<"<","O","u","t","p","u","t",">">>)
      [] v.tag = "Bool" -> IF v.bool THEN S(<<"t","r","u","e">>) ELSE S(<<"f","a","l","s","e">>)
      [] v.tag = "Float" -> FloatToStr(v)
      [] v.tag = "Empty" -> S(<<"<","e","m","p","t","y",">">>)
      [] v.tag = "BinaryStream" ->
            S(<<"<","b","i","n","a","r","y"," ","s","t","r","e","a","m",">">>)
      [] v.tag = "Binary" -> Flatten([i \in 1..Len(v.bytes) |-> hex(v.bytes[i])])
      [] v.tag = "Type" -> TypeToString(v.vt)
      [] OTHER -> ExternalToString(v)

-----------------------------------------------------------------------------
(* Value::materialize (mod.rs 174-197).                                    *)

RECURSIVE materialize(_)
\* Row::materialize
RowMaterialize(row) == [i \in 1..Len(row) |-> materialize(row[i])]

\* A row put in front of the rows gathered so far.
MaterializeRowFront(rows, r) == <<RowMaterialize(r)>> \o rows

\* Ok(r) => rows.push(r.materialize())
MaterializeRow(rows, r) == Append(rows, RowMaterialize(r))

RECURSIVE MaterializeRows(_, _)
\* loop { match output.recv() { Ok(r) => rows.push(r.materialize()), Err(_) => break } }
\* over a stream whose remaining rows are pending and whose sender is gone.
MaterializeRows(rows, pending) ==
    IF pending = <<>> THEN rows
    ELSE MaterializeRows(MaterializeRow(rows, pending[1]), Tail(pending))

\* Value::Table(Table::new(ColumnType::materialize(output.stream.types()), rows))
MaterializeDone(cols, rows) == Table(ColumnsMaterialize(cols), rows)

\* Value::materialize
materialize(v) ==
    CASE v.tag = "TableStream" ->
            MaterializeDone(v.cols, MaterializeRows(<<>>, v.rows))
      [] v.tag = "BinaryStream" -> Binary(v.bytes)
      [] v.tag = "Table" ->
            Table(ColumnsMaterialize(v.cols),
                  [i \in 1..Len(v.rows) |-> RowMaterialize(v.rows[i])])
      [] v.tag = "Dict" ->
            Dict(TypeMaterialize(v.key), TypeMaterialize(v.val),
                 [i \in 1..Len(v.entries) |->
                    <<materialize(v.entries[i][1]), materialize(v.entries[i][2])>>])
      [] v.tag = "Struct" -> Struct(ColumnsMaterialize(v.cols), RowMaterialize(v.cells))
      [] v.tag = "List" -> List(TypeMaterialize(v.elem), RowMaterialize(v.cells))
      [] OTHER -> v

-----------------------------------------------------------------------------
(* Value::file_expand (mod.rs 147-172).                                    *)

\* t.len() == 1 && t[0].cell_type == ValueType::File
FileExpandAccepts(cols) == Len(cols) = 1 /\ cols[1].cell_type = T("File")

\* if let Value::File(f) = row.into_vec().remove(0) { v.push(f); }
FileExpandRow(vec, row) == IF row[1].tag = "File" THEN Append(vec, row[1].s) ELSE vec

RECURSIVE FileExpandRows(_, _)
\* loop { match s.recv() { Ok(row) => ..., Err(_) => break } }
FileExpandRows(vec, pending) ==
    IF pending = <<>> THEN vec
    ELSE FileExpandRows(FileExpandRow(vec, pending[1]), Tail(pending))

\* Value::file_expand: the result and the vector afterwards. cwdOk is whether
\* cwd() succeeds.
file_expand(v, vec, cwdOk) ==
    CASE v.tag = "Text" -> [r |-> Ok("unit"), into |-> Append(vec, v.s)]
      [] v.tag = "File" -> [r |-> Ok("unit"), into |-> Append(vec, v.s)]
      [] v.tag = "Glob" ->
            IF cwdOk THEN [r |-> Ok("unit"), into |-> vec \o GlobFiles(v.s, FsFiles)]
            ELSE [r |-> error("Could not determine working directory"), into |-> vec]
      [] v.tag = "TableStream" ->
            IF FileExpandAccepts(v.cols)
            THEN [r |-> Ok("unit"), into |-> FileExpandRows(vec, v.rows)]
            ELSE [r |-> argument_error("Table stream must contain one column of type file"),
                  into |-> vec]
      [] OTHER -> [r |-> error("Expected a file name"), into |-> vec]

-----------------------------------------------------------------------------
(* Value::cast (mod.rs 199-297).                                           *)

\* An integer parse that loses the sign.
ParseIntegerUnsigned(s) ==
    LET r == to_crush_error(parse_i128(s))
    IN  IF r.ok THEN Ok(Integer(IF r.v < 0 THEN -r.v ELSE r.v)) ELSE r

\* to_crush_error(s.parse::<i128>()).map(|v| Value::Integer(v))
ParseInteger(s) ==
    LET r == to_crush_error(parse_i128(s)) IN IF r.ok THEN Ok(Integer(r.v)) ELSE r

CompileRegex(s) == to_crush_error(RegexNew(s))

\* s.stream.types().len() != 1, then s.stream.types()[0].cell_type != t
CastListCheck(cols, t) ==
    IF Len(cols) # 1
    THEN error("Stream must have exactly one element to convert to list")
    ELSE IF cols[1].cell_type # t THEN error("Incompatible stream type")
    ELSE Ok("unit")

\* The cell put in front of the cells gathered so far.
CastListRowFront(v, r) == <<r[1]>> \o v

\* Ok(r) => v.push(r.into_vec().remove(0))
CastListRow(v, r) == Append(v, r[1])

RECURSIVE CastListRows(_, _)
\* loop { match s.stream.recv() { Ok(r) => v.push(...), Err(_) => break } }
CastListRows(v, pending) ==
    IF pending = <<>> THEN v
    ELSE CastListRows(CastListRow(v, pending[1]), Tail(pending))

\* Ok(Value::List(List::new(t.as_ref().clone(), v)))
CastListDone(t, v) == Ok(List(t, v))

\* Value::cast
cast(v, new_type) ==
    LET tag == v.tag
        to == new_type.t
    IN
    IF value_type(v) = new_type THEN Ok(v)
    ELSE CASE tag = "Text" /\ to = "File" -> Ok(File(v.s))
      [] tag = "Text" /\ to = "Glob" -> Ok(Glob(v.s))
      [] tag = "Text" /\ to = "Integer" -> ParseInteger(v.s)
      [] tag = "Text" /\ to = "Field" -> Ok(Field(<<v.s>>))
      [] tag = "Text" /\ to = "Regex" -> CompileRegex(v.s)
      [] tag = "Text" /\ to = "Binary" -> Ok(Binary(Utf8Encode(v.s)))
      [] tag = "Text" /\ to = "Float" ->
            (LET r == to_crush_error(parse_f64(v.s))
             IN  IF r.ok THEN Ok(Float(r.v.neg, r.v.mag)) ELSE r)
      [] tag = "File" /\ to = "Text" -> Ok(Text(v.s))
      [] tag = "File" /\ to = "Glob" -> Ok(Glob(v.s))
      [] tag = "File" /\ to = "Integer" -> ParseInteger(v.s)
      [] tag = "File" /\ to = "Regex" -> CompileRegex(v.s)
      [] tag = "Glob" /\ to = "Text" -> Ok(Text(v.s))
      [] tag = "Glob" /\ to = "File" -> Ok(File(v.s))
      [] tag = "Glob" /\ to = "Integer" -> ParseInteger(v.s)
      [] tag = "Glob" /\ to = "Regex" -> CompileRegex(v.s)
      [] tag = "Regex" /\ to = "File" -> Ok(File(v.s))
      [] tag = "Regex" /\ to = "Glob" -> Ok(Glob(v.s))
      [] tag = "Regex" /\ to = "Integer" -> ParseInteger(v.s)
      [] tag = "Regex" /\ to = "Text" -> Ok(Text(v.s))
      [] tag = "Integer" /\ to = "Text" -> Ok(Text(IntToStr(v.i)))
      [] tag = "Integer" /\ to = "File" -> Ok(File(IntToStr(v.i)))
      [] tag = "Integer" /\ to = "Glob" -> Ok(Glob(IntToStr(v.i)))
      [] tag = "Integer" /\ to = "Field" -> Ok(Field(<<IntToStr(v.i)>>))
      [] tag = "Integer" /\ to = "Regex" -> CompileRegex(IntToStr(v.i))
      [] tag = "Integer" /\ to = "Float" -> Ok(Float(v.i < 0, IF v.i < 0 THEN -v.i ELSE v.i))
      [] tag = "Type" /\ to = "Text" -> Ok(Text(TypeToString(v.vt)))
      [] tag = "Float" /\ to = "Integer" -> Ok(Integer(IF v.neg THEN -v.mag ELSE v.mag))
      [] tag = "Float" /\ to = "Text" -> Ok(Text(FloatToStr(v)))
      [] tag = "Binary" /\ to = "Text" ->
            (LET r == to_crush_error(Utf8Decode(v.bytes)) IN IF r.ok THEN Ok(Text(r.v)) ELSE r)
      [] tag = "BinaryStream" /\ to = "Text" ->
            (LET r == to_crush_error(Utf8Decode(v.bytes)) IN IF r.ok THEN Ok(Text(r.v)) ELSE r)
      [] tag = "TableStream" /\ to = "List" ->
            (IF CastListCheck(v.cols, new_type.elem).ok
             THEN CastListDone(new_type.elem, CastListRows(<<>>, v.rows))
             ELSE CastListCheck(v.cols, new_type.elem))
      [] OTHER -> error("Unimplemented conversion")

-----------------------------------------------------------------------------
(* impl Hash for Value (mod.rs 330-356). A hash call either panics or      *)
(* feeds a sequence of items to the hasher.                                *)

Panic(msg) == [panic |-> TRUE, msg |-> msg]
Fed(items) == [panic |-> FALSE, fed |-> items]

\* str::hash: the bytes, then 0xff.
HashStr(s) == <<[w |-> "bytes", bytes |-> Utf8Encode(s)], [w |-> "u8", n |-> 255]>>

\* Path::hash: the components, the root marked.
HashPath(p) ==
    <<[w |-> "path", root |-> (p # <<>> /\ p[1] = 47), comps |-> Components(p, <<>>)]>>

\* The match of Value::hash (mod.rs 335-354).
HashMatch(v) ==
    CASE v.tag = "Text" -> Fed(HashStr(v.s))
      [] v.tag = "Integer" -> Fed(<<[w |-> "i128", n |-> v.i]>>)
      [] v.tag = "Time" -> Fed(<<[w |-> "time", n |-> v.time]>>)
      [] v.tag = "Field" ->
            Fed(<<[w |-> "usize", n |-> Len(v.segs)]>>
                \o Flatten([i \in 1..Len(v.segs) |-> HashStr(v.segs[i])]))
      [] v.tag = "Glob" -> Fed(HashStr(v.s) \o <<[w |-> "glob", pattern |-> v.s]>>)
      [] v.tag = "Regex" -> Fed(HashStr(v.s))
      [] v.tag = "Command" -> Fed(<<>>)
      [] v.tag = "ConditionCommand" -> Fed(<<>>)
      [] v.tag = "File" -> Fed(HashPath(v.s))
      [] v.tag = "Duration" -> Fed(<<[w |-> "duration", n |-> v.dur]>>)
      [] v.tag = "Bool" -> Fed(<<[w |-> "u8", n |-> IF v.bool THEN 1 ELSE 0]>>)
      [] v.tag = "Binary" ->
            Fed(<<[w |-> "usize", n |-> Len(v.bytes)], [w |-> "bytes", bytes |-> v.bytes]>>)
      [] v.tag \in {"Scope", "Dict", "Table", "Closure", "List", "TableStream", "Struct",
                    "Float", "BinaryStream"} -> Panic("Can't hash output")
      [] v.tag = "Empty" -> Fed(<<>>)
      [] v.tag = "Type" -> Fed(HashStr(TypeToString(v.vt)))

\* Value::hash without its is_hashable guard.
HashUnguarded(v) == HashMatch(v)

\* impl Hash for Value
Hash(v) ==
    IF ~is_hashable(value_type(v)) THEN Panic("Can't hash mutable cell types!")
    ELSE HashMatch(v)

-----------------------------------------------------------------------------
(* impl PartialEq and impl PartialOrd for Value (mod.rs 358-427), with the *)
(* orders of List, Table and Struct they defer to.                         *)

\* fn file_result_compare
file_result_compare(f1, f2) ==
    canonicalize(f1).ok /\ canonicalize(f2).ok /\ canonicalize(f1).v = canonicalize(f2).v

RECURSIVE SeqSeqCmp(_, _)
SeqSeqCmp(x, y) ==
    IF x = <<>> /\ y = <<>> THEN "Equal"
    ELSE IF x = <<>> THEN "Less"
    ELSE IF y = <<>> THEN "Greater"
    ELSE IF SeqCmp(x[1], y[1]) # "Equal" THEN SeqCmp(x[1], y[1])
    ELSE SeqSeqCmp(Tail(x), Tail(y))

\* Path::cmp: by components; the root component sorts before any name.
PathCmp(p, q) ==
    LET comps(x) == (IF x # <<>> /\ x[1] = 47 THEN << <<>> >> ELSE <<>>) \o Components(x, <<>>)
    IN  SeqSeqCmp(comps(p), comps(q))

RECURSIVE PartialCmp(_, _)
RECURSIVE CellsPartialCmp(_, _)
\* The order of two sequences of Values (List, Row): element by element, the
\* first decided pair deciding, the shorter first when one is a prefix.
CellsPartialCmp(c1, c2) ==
    IF c1 = <<>> /\ c2 = <<>> THEN "Equal"
    ELSE IF c1 = <<>> THEN "Less"
    ELSE IF c2 = <<>> THEN "Greater"
    ELSE IF PartialCmp(c1[1], c2[1]) # "Equal" THEN PartialCmp(c1[1], c2[1])
    ELSE CellsPartialCmp(Tail(c1), Tail(c2))

RECURSIVE RowsPartialCmp(_, _)
RowsPartialCmp(r1, r2) ==
    IF r1 = <<>> /\ r2 = <<>> THEN "Equal"
    ELSE IF r1 = <<>> THEN "Less"
    ELSE IF r2 = <<>> THEN "Greater"
    ELSE IF CellsPartialCmp(r1[1], r2[1]) # "Equal" THEN CellsPartialCmp(r1[1], r2[1])
    ELSE RowsPartialCmp(Tail(r1), Tail(r2))

\* Table::partial_cmp: row by row, then by schema.
TablePartialCmp(t1, t2) ==
    IF RowsPartialCmp(t1.rows, t2.rows) # "Equal" THEN RowsPartialCmp(t1.rows, t2.rows)
    ELSE ColsCmp(t1.cols, t2.cols)

\* Struct::partial_cmp: cell by cell, then by schema.
StructPartialCmp(s1, s2) ==
    IF CellsPartialCmp(s1.cells, s2.cells) # "Equal" THEN CellsPartialCmp(s1.cells, s2.cells)
    ELSE ColsCmp(s1.cols, s2.cols)

\* The match of Value::partial_cmp (mod.rs 408-425): "None", or the Ordering.
SameTypeCmp(x, y) ==
    LET both(tag) == x.tag = tag /\ y.tag = tag
    IN
    CASE both("Text") -> SeqCmp(x.s, y.s)
      [] both("Field") -> SeqSeqCmp(x.segs, y.segs)
      [] both("Glob") -> SeqCmp(x.s, y.s)
      [] both("Regex") -> SeqCmp(x.s, y.s)
      [] both("Integer") -> IntCmp(x.i, y.i)
      [] both("Time") -> IntCmp(x.time, y.time)
      [] both("File") -> PathCmp(x.s, y.s)
      [] both("Duration") -> IntCmp(x.dur, y.dur)
      [] both("Command") -> "None"
      [] x.tag = "Closure" -> "None"
      [] x.tag = "TableStream" -> "None"
      [] both("Table") -> TablePartialCmp(x, y)
      [] both("Struct") -> StructPartialCmp(x, y)
      [] both("List") -> CellsPartialCmp(x.cells, y.cells)
      [] both("Bool") -> IntCmp(IF x.bool THEN 1 ELSE 0, IF y.bool THEN 1 ELSE 0)
      [] OTHER -> "None"

\* Value::partial_cmp without the comparison of the two types.
PartialCmpNoTypeCheck(x, y) == SameTypeCmp(x, y)

\* impl PartialOrd for Value
PartialCmp(x, y) ==
    IF value_type(x) # value_type(y) THEN TypeCmp(value_type(x), value_type(y))
    ELSE SameTypeCmp(x, y)

RECURSIVE Eq(_, _)
\* List::eq: the same length and equal elements.
ListEq(l1, l2) ==
    Len(l1.cells) = Len(l2.cells) /\ \A i \in 1..Len(l1.cells) : Eq(l1.cells[i], l2.cells[i])

\* Equality as #[derive(PartialEq)] would give it: the same variant and payload.
EqDerived(x, y) == x = y

\* impl PartialEq for Value
Eq(x, y) ==
    LET pair(t1, t2) == x.tag = t1 /\ y.tag = t2
    IN
    CASE pair("Text", "Text") -> x.s = y.s
      [] pair("Glob", "Text") -> GlobMatches(x.s, y.s)
      [] pair("Text", "Glob") -> GlobMatches(y.s, x.s)
      [] pair("Integer", "Integer") -> x.i = y.i
      [] pair("Time", "Time") -> x.time = y.time
      [] pair("Duration", "Duration") -> x.dur = y.dur
      [] pair("Field", "Field") -> x.segs = y.segs
      [] pair("Glob", "Glob") -> x.s = y.s
      [] pair("Regex", "Regex") -> x.s = y.s
      [] pair("Command", "Command") -> x.id = y.id
      [] pair("List", "List") -> ListEq(x, y)
      [] pair("Table", "Table") -> TablePartialCmp(x, y) = "Equal"
      [] pair("Struct", "Struct") -> StructPartialCmp(x, y) = "Equal"
      [] pair("File", "File") -> file_result_compare(x.s, y.s)
      [] pair("Text", "File") -> file_result_compare(x.s, y.s)
      [] pair("File", "Text") -> file_result_compare(y.s, x.s)
      [] pair("Bool", "Bool") -> x.bool = y.bool
      [] OTHER -> FALSE

-----------------------------------------------------------------------------
(* The inputs.                                                             *)

\* The characters Text inputs are made of: + - 0 1 d * /
Alphabet == {Code("+"), Code("-"), Code("0"), Code("1"), Code("d"), Code("*"), Code("/")}

RECURSIVE StringsUpTo(_)
StringsUpTo(n) ==
    IF n = 0 THEN {<<>>}
    ELSE StringsUpTo(n - 1)
         \cup {Append(s, c) : s \in {x \in StringsUpTo(n - 1) : Len(x) = n - 1}, c \in Alphabet}

TextInputs == StringsUpTo(MaxLen)

FileColumn == <<Column(S(<<"p","a","t","h">>), T("File"))>>
IntegerColumn == <<Column(S(<<"v","a","l","u","e">>), T("Integer"))>>
BinaryColumn == <<Column(S(<<"v","a","l","u","e">>), T("Binary"))>>
StreamColumn == <<Column(S(<<"v","a","l","u","e">>), TableStreamType(IntegerColumn))>>
TwoColumns == <<Column(S(<<"p","a","t","h">>), T("File")),
                Column(S(<<"v","a","l","u","e">>), T("Integer"))>>

\* Values of every variant, the operands of the binary operations.
Operands ==
    {Text(<<>>), Text(S(<<"1">>)), Text(S(<<"d">>)), Text(S(<<"1","d">>)), Text(S(<<"/","d">>)),
     Integer(-1), Integer(0), Integer(1),
     Time(0), Time(1), Duration(0), Duration(1),
     Field(<<S(<<"d">>)>>), Field(<<S(<<"d">>), S(<<"1">>)>>),
     Glob(S(<<"*">>)), Glob(S(<<"d">>)), Glob(S(<<"1","*">>)),
     Regex(S(<<"d">>)), Regex(S(<<"1">>)),
     Command(1), Command(2), ConditionCommand(1), Closure(1), Scope(1),
     File(S(<<"d">>)), File(S(<<"/","d">>)), File(S(<<"0">>)),
     TableStream(FileColumn, <<<<File(S(<<"d">>))>>, <<File(S(<<"1">>))>>, <<File(S(<<"0">>))>>>>),
     TableStream(FileColumn, <<<<File(S(<<"d">>))>>, <<Integer(1)>>, <<File(S(<<"1">>))>>>>),
     TableStream(IntegerColumn, <<<<Integer(1)>>, <<Integer(0)>>>>),
     TableStream(TwoColumns, <<<<File(S(<<"d">>)), Integer(1)>>>>),
     TableStream(IntegerColumn, <<>>),
     Table(IntegerColumn, <<<<Integer(1)>>, <<Integer(0)>>>>),
     Table(IntegerColumn, <<>>),
     Table(BinaryColumn, <<<<Binary(<<1>>)>>>>),
     Table(StreamColumn, <<<<TableStream(IntegerColumn, <<<<Integer(1)>>>>)>>>>),
     Struct(IntegerColumn, <<Integer(1)>>), Struct(TwoColumns, <<File(S(<<"d">>)), Integer(1)>>),
     List(T("Integer"), <<Integer(1), Integer(0)>>), List(T("Integer"), <<>>),
     List(T("Text"), <<Text(S(<<"d">>))>>), List(T("Binary"), <<Binary(<<1>>)>>),
     List(T("BinaryStream"), <<BinaryStream(<<1>>)>>),
     Dict(T("Text"), T("Integer"), <<<<Text(S(<<"d">>)), Integer(1)>>>>),
     Bool(TRUE), Bool(FALSE), Float(FALSE, 1), Float(TRUE, 0), Empty,
     BinaryStream(<<100>>), BinaryStream(<<255>>),
     Binary(<<>>), Binary(<<100>>), Binary(<<171, 10>>), Binary(<<195, 169>>),
     Type(T("Integer")), Type(ListType(T("Text")))}

\* Every input: the operands, every Text up to MaxLen and every one-byte Binary.
Values == Operands \cup {Text(s) : s \in TextInputs} \cup {Binary(<<x>>) : x \in 0..255}

\* The types a cast is asked for.
CastTargets ==
    {T("Text"), T("Integer"), T("Time"), T("Field"), T("Glob"), T("Regex"), T("File"),
     T("Binary"), T("Float"), T("Bool"), ListType(T("File")), ListType(T("Integer"))}

\* What into holds before file_expand is called.
IntoInputs == {<<>>, <<S(<<"0">>)>>}

NoResult == [none |-> TRUE]

-----------------------------------------------------------------------------
(* The value operations as steps: each applies one operation of Value to   *)
(* a fresh input a (and an operand, a type or a vector) and records the    *)
(* result; materialize and cast may then be applied to their own result.   *)

CommandIdle ==
    /\ this = Empty
    /\ arguments = <<>>
    /\ output = <<>>
    /\ inflight = <<>>
    /\ receiver = FALSE
    /\ pc = "idle"
    /\ seq_i = 0
    /\ ret = NoResult

StreamIdle ==
    /\ types = <<>>
    /\ script = <<>>
    /\ chan = <<>>
    /\ open = FALSE
    /\ sent = <<>>
    /\ cons = <<>>
    /\ exhausted = FALSE

Init ==
    /\ a \in Values
    /\ b = Empty
    /\ ty = T("Empty")
    /\ op = "new"
    /\ res = NoResult
    /\ into = <<>>
    /\ StreamIdle
    /\ CommandIdle

DoToString ==
    /\ op = "new"
    /\ op' = "to_string"
    /\ res' = to_string(a)
    /\ UNCHANGED <<a, b, ty, into, streamVars, commandVars>>

DoMaterialize ==
    /\ op = "new"
    /\ op' = "materialize"
    /\ res' = materialize(a)
    /\ UNCHANGED <<a, b, ty, into, streamVars, commandVars>>

\* materialize applied to what materialize returned.
DoMaterializeAgain ==
    /\ op = "materialize"
    /\ op' = "materialize2"
    /\ b' = res
    /\ res' = materialize(res)
    /\ UNCHANGED <<a, ty, into, streamVars, commandVars>>

DoCast ==
    \E t \in CastTargets :
        /\ op = "new"
        /\ op' = "cast"
        /\ ty' = t
        /\ res' = cast(a, t)
        /\ UNCHANGED <<a, b, into, streamVars, commandVars>>

\* cast applied to what a successful cast returned.
DoCastAgain ==
    \E t \in {T("Text"), T("Integer")} :
        /\ op = "cast"
        /\ res.ok
        /\ op' = "cast2"
        /\ b' = res.v
        /\ ty' = t
        /\ res' = cast(res.v, t)
        /\ UNCHANGED <<a, into, streamVars, commandVars>>

DoHash ==
    /\ op = "new"
    /\ op' = "hash"
    /\ res' = Hash(a)
    /\ UNCHANGED <<a, b, ty, into, streamVars, commandVars>>

DoEq ==
    \E y \in Operands :
        /\ op = "new"
        /\ a \in Operands
        /\ op' = "eq"
        /\ b' = y
        /\ res' = Eq(a, y)
        /\ UNCHANGED <<a, ty, into, streamVars, commandVars>>

\* a == other, with the hash of either side.
DoEqHash ==
    \E y \in Operands :
        /\ op = "new"
        /\ a \in Operands
        /\ op' = "eq_hash"
        /\ b' = y
        /\ res' = [eq |-> Eq(a, y), self |-> Hash(a), other |-> Hash(y)]
        /\ UNCHANGED <<a, ty, into, streamVars, commandVars>>

DoPartialCmp ==
    \E y \in Operands :
        /\ op = "new"
        /\ a \in Operands
        /\ op' = "partial_cmp"
        /\ b' = y
        /\ res' = PartialCmp(a, y)
        /\ UNCHANGED <<a, ty, into, streamVars, commandVars>>

DoFileExpand ==
    \E v \in IntoInputs, cwdOk \in BOOLEAN :
        /\ op = "new"
        /\ op' = "file_expand"
        /\ into' = v
        /\ res' = file_expand(a, v, cwdOk)
        /\ UNCHANGED <<a, b, ty, streamVars, commandVars>>

Next ==
    \/ DoToString
    \/ DoMaterialize
    \/ DoMaterializeAgain
    \/ DoCast
    \/ DoCastAgain
    \/ DoHash
    \/ DoEq
    \/ DoEqHash
    \/ DoPartialCmp
    \/ DoFileExpand

Spec == Init /\ [][Next]_vars

-----------------------------------------------------------------------------
(* A TableStream shared by cloned handles (mod.rs 109-117, 152-164,        *)
(* 176-185, 278-293). The producer sends rows into a bounded channel and   *)
(* drops its sending side; each consumer holds a clone of the receiving    *)
(* side and runs materialize, cast to List, file_expand or bare recv calls *)
(* on it. A consumer's loop advances one recv at a time.                   *)

Consumers == {1, 2}

\* The schemas of the shared stream.
Schemas == {FileColumn, IntegerColumn, TwoColumns}

\* The rows a producer may send under a schema. The schema is not enforced on
\* the rows: a one-column stream may carry a cell of another type.
RowPool(cols) ==
    IF Len(cols) = 1
    THEN {<<File(S(<<"d">>))>>, <<File(S(<<"1">>))>>, <<Integer(1)>>}
    ELSE {<<File(S(<<"d">>)), Integer(1)>>, <<File(S(<<"1">>)), Integer(0)>>}

RECURSIVE RowSeqsUpTo(_, _)
RowSeqsUpTo(pool, n) ==
    IF n = 0 THEN {<<>>}
    ELSE RowSeqsUpTo(pool, n - 1)
         \cup {Append(s, r) : s \in {x \in RowSeqsUpTo(pool, n - 1) : Len(x) = n - 1}, r \in pool}

\* A consumer: what it runs (kind), where it is (pc), the rows recv has
\* returned to it (got), the vector it started with (init) and its local
\* vector now (acc), the element type asked of cast (elem), its result (out).
Consumer(kind, elem, init) ==
    [kind |-> kind, pc |-> IF kind = "none" THEN "done" ELSE "start", got |-> <<>>,
     init |-> init, acc |-> init, elem |-> elem, out |-> NoResult]

ConsumerInputs ==
    {Consumer("materialize", T("Empty"), <<>>), Consumer("recv", T("Empty"), <<>>),
     Consumer("cast", T("File"), <<>>), Consumer("cast", T("Integer"), <<>>),
     Consumer("file_expand", T("Empty"), <<S(<<"0">>)>>)}

ValuesIdle ==
    /\ a = Empty
    /\ b = Empty
    /\ ty = T("Empty")
    /\ op = "new"
    /\ res = NoResult
    /\ into = <<>>

StreamInit ==
    /\ ValuesIdle
    /\ CommandIdle
    /\ types \in Schemas
    /\ script \in RowSeqsUpTo(RowPool(types), MaxRows)
    /\ chan = <<>>
    /\ open = TRUE
    /\ sent = <<>>
    /\ cons \in {c \in [Consumers -> ConsumerInputs \cup {Consumer("none", T("Empty"), <<>>)}] :
                    c[1].kind # "none"}
    /\ exhausted = FALSE

\* The producer's output.send(row): blocks while the channel is full.
Send ==
    /\ open
    /\ script # <<>>
    /\ Len(chan) < ChanCap
    /\ chan' = Append(chan, Head(script))
    /\ sent' = Append(sent, Head(script))
    /\ script' = Tail(script)
    /\ UNCHANGED <<valueVars, commandVars, types, open, cons, exhausted>>

\* The producer returns (when done, or early on an error): the sender is dropped.
Close ==
    /\ open
    /\ open' = FALSE
    /\ UNCHANGED <<valueVars, commandVars, types, script, chan, sent, cons, exhausted>>

\* What precedes the loop: the schema checks of cast and file_expand.
BeginOutcome(c) ==
    CASE c.kind = "cast" -> CastListCheck(types, c.elem)
      [] c.kind = "file_expand" ->
            IF FileExpandAccepts(types) THEN Ok("unit")
            ELSE argument_error("Table stream must contain one column of type file")
      [] OTHER -> Ok("unit")

Begin(c) ==
    /\ cons[c].pc = "start"
    /\ cons' = [cons EXCEPT ![c].pc = IF BeginOutcome(cons[c]).ok THEN "loop" ELSE "failed",
                            ![c].out = IF BeginOutcome(cons[c]).ok THEN NoResult
                                       ELSE BeginOutcome(cons[c])]
    /\ UNCHANGED <<valueVars, commandVars, types, script, chan, open, sent, exhausted>>

\* The Ok(row) arm of the consumer's loop.
OnRow(c, row) ==
    CASE c.kind = "materialize" -> MaterializeRow(c.acc, row)
      [] c.kind = "cast" -> CastListRow(c.acc, row)
      [] c.kind = "file_expand" -> FileExpandRow(c.acc, row)
      [] OTHER -> Append(c.acc, row)

\* stream.recv() returns Ok(row): the head of the channel, taken by this consumer.
Recv(c) ==
    /\ cons[c].pc = "loop"
    /\ chan # <<>>
    /\ chan' = Tail(chan)
    /\ cons' = [cons EXCEPT ![c].got = Append(cons[c].got, Head(chan)),
                            ![c].acc = OnRow(cons[c], Head(chan))]
    /\ UNCHANGED <<valueVars, commandVars, types, script, open, sent, exhausted>>

\* The Err(_) => break arm and what follows the loop.
OnExhausted(c) ==
    CASE c.kind = "materialize" -> [c EXCEPT !.pc = "done", !.out = MaterializeDone(types, c.acc)]
      [] c.kind = "cast" -> [c EXCEPT !.pc = "done", !.out = CastListDone(c.elem, c.acc)]
      [] c.kind = "file_expand" -> [c EXCEPT !.pc = "done", !.out = Ok("unit")]
      [] OTHER -> [c EXCEPT !.out = error("Channel closed")]

\* stream.recv() returns Err: the channel is empty and the sender is gone.
\* A bare recv caller may call recv again afterwards.
RecvExhausted(c) ==
    /\ cons[c].pc = "loop"
    /\ chan = <<>>
    /\ ~open
    /\ exhausted' = TRUE
    /\ cons' = [cons EXCEPT ![c] = OnExhausted(cons[c])]
    /\ UNCHANGED <<valueVars, commandVars, types, script, chan, open, sent>>

StreamNext ==
    \/ Send
    \/ Close
    \/ \E c \in Consumers : Begin(c)
    \/ \E c \in Consumers : Recv(c)
    \/ \E c \in Consumers : RecvExhausted(c)

StreamSpec == StreamInit /\ [][StreamNext]_vars

-----------------------------------------------------------------------------
(* The binary type's methods (lib/types/binary.rs). A 128-bit integer is   *)
(* kept as its two's-complement representation in 16-bit limbs, least      *)
(* significant first, so that the conversion to usize is computed.         *)

I128Bits == 128    \* Value::Integer holds an i128
UsizeBits == 64    \* the index width of a 64-bit build

Limb == 2^16
I128Limbs == I128Bits \div 16
UsizeLimbs == UsizeBits \div 16

RECURSIVE Limbs(_, _)
\* The n low limbs of the two's-complement representation of i.
Limbs(i, n) == IF n = 0 THEN <<>> ELSE <<i % Limb>> \o Limbs(i \div Limb, n - 1)

\* A Value::Integer given by its representation (for values of any magnitude).
WideInteger(limbs) == [tag |-> "Integer", limbs |-> limbs]

\* The i128 inside a Value::Integer.
IntegerLimbs(v) == IF "limbs" \in DOMAIN v THEN v.limbs ELSE Limbs(v.i, I128Limbs)

\* idx as usize: the low 64 bits, read as an unsigned number.
AsUsize(limbs) == SubSeq(limbs, 1, UsizeLimbs)

\* val.get(index) of a slice: Some(&val[index]) when index < val.len().
SliceGet(val, index) ==
    IF (\A k \in 2..Len(index) : index[k] = 0) /\ index[1] < Len(val)
    THEN [some |-> TRUE, v |-> val[index[1] + 1]]
    ELSE [some |-> FALSE]

\* mandate(option, msg)
mandate(option, msg) == IF option.some THEN Ok(option.v) ELSE error(msg)

\* context.this.binary()
ThisBinary(x) == IF x.tag = "Binary" THEN Ok(x.bytes) ELSE error("Wrong type of this")

\* context.arguments.check_len(len)
check_len(args, n) ==
    IF Len(args) = n THEN Ok("unit") ELSE argument_error("Wrong number of arguments")

\* context.arguments.integer(idx)
ArgumentInteger(args, k) ==
    IF args[k + 1].tag = "Integer" THEN Ok(IntegerLimbs(args[k + 1]))
    ELSE argument_error("Wrong argument type")

\* context.output.send(value): what is delivered and what send returns; it
\* fails when the receiving side is gone.
ValueSend(value, held) ==
    IF held THEN [ret |-> Ok("unit"), sent |-> <<value>>]
    ELSE [ret |-> error("Channel closed"), sent |-> <<>>]

Failed(r) == [ret |-> r, sent |-> <<>>]

\* fn len
BinaryLen(x, held) ==
    IF ~ThisBinary(x).ok THEN Failed(ThisBinary(x))
    ELSE ValueSend(Integer(Len(ThisBinary(x).v)), held)

\* *mandate(val.get(idx as usize), "Index out of bounds")? as i128
GetitemByte(val, idx) == mandate(SliceGet(val, AsUsize(idx)), "Index out of bounds")

\* fn getitem
getitem(x, args, held) ==
    IF ~ThisBinary(x).ok THEN Failed(ThisBinary(x))
    ELSE IF ~check_len(args, 1).ok THEN Failed(check_len(args, 1))
    ELSE IF ~ArgumentInteger(args, 0).ok THEN Failed(ArgumentInteger(args, 0))
    ELSE IF ~GetitemByte(ThisBinary(x).v, ArgumentInteger(args, 0).v).ok
         THEN Failed(GetitemByte(ThisBinary(x).v, ArgumentInteger(args, 0).v))
    ELSE ValueSend(Integer(GetitemByte(ThisBinary(x).v, ArgumentInteger(args, 0).v).v), held)

\* Inputs of the binary methods.
Bytes == {0, 10, 255}
RECURSIVE BinariesUpTo(_)
BinariesUpTo(n) ==
    IF n = 0 THEN {<<>>}
    ELSE BinariesUpTo(n - 1) \cup
         {Append(s, x) : s \in {z \in BinariesUpTo(n - 1) : Len(z) = n - 1}, x \in Bytes}

ThisInputs == {Binary(s) : s \in BinariesUpTo(MaxLen)} \cup {Text(S(<<"0">>)), Empty}

\* Indices around 0, around the length, negative, and at and beyond 2^64.
IndexInputs ==
    {Integer(i) : i \in -1..(MaxLen + 1)} \cup
    {WideInteger(<<l, m, m, m, u, h, h, h>>) :
        l \in {0, 1, Limb - 1}, m \in {0, Limb - 1}, u \in {0, 1, Limb - 1}, h \in {0, Limb - 1}}

ArgumentInputs ==
    {<<>>, <<Text(S(<<"0">>))>>, <<Integer(0), Integer(0)>>} \cup {<<x>> : x \in IndexInputs}

BinaryInit ==
    /\ ValuesIdle
    /\ StreamIdle
    /\ this \in ThisInputs
    /\ arguments \in ArgumentInputs
    /\ output = <<>>
    /\ inflight = <<>>
    /\ receiver \in BOOLEAN
    /\ pc = "start"
    /\ seq_i = 0
    /\ ret = NoResult

DoLen ==
    /\ pc = "start"
    /\ pc' = "len"
    /\ ret' = BinaryLen(this, receiver).ret
    /\ output' = output \o BinaryLen(this, receiver).sent
    /\ UNCHANGED <<valueVars, streamVars, this, arguments, inflight, receiver, seq_i>>

DoGetitem ==
    /\ pc = "start"
    /\ pc' = "getitem"
    /\ ret' = getitem(this, arguments, receiver).ret
    /\ output' = output \o getitem(this, arguments, receiver).sent
    /\ UNCHANGED <<valueVars, streamVars, this, arguments, inflight, receiver, seq_i>>

BinaryNext == DoLen \/ DoGetitem

BinarySpec == BinaryInit /\ [][BinaryNext]_vars

-----------------------------------------------------------------------------
(* The seq producer (lib/stream/seq.rs) and the consuming side of its      *)
(* output: a bounded channel of rows that the consumer drains or drops.    *)

\* single_argument_integer(context.arguments)
single_argument_integer(args) ==
    IF Len(args) = 1 /\ args[1].tag = "Integer" THEN Ok(args[1].i)
    ELSE argument_error("Expected a single integer argument")

\* context.output.initialize(columns): hands the stream to the consuming side;
\* it fails when that side is gone.
initialize(held) == IF held THEN Ok("unit") ELSE error("Channel closed")

\* A row numbered from 1.
SeqRowFromOne(i) == <<Integer(i + 1)>>

\* Row::new(vec![Value::Integer(i)])
SeqRow(i) == <<Integer(i)>>

SeqArguments ==
    {<<>>, <<Text(S(<<"1">>))>>, <<Integer(1), Integer(1)>>} \cup
    {<<Integer(n)>> : n \in -1..MaxCount}

SeqInit ==
    /\ ValuesIdle
    /\ StreamIdle
    /\ this = Empty
    /\ arguments \in SeqArguments
    /\ output = <<>>
    /\ inflight = <<>>
    /\ receiver \in BOOLEAN
    /\ pc = "start"
    /\ seq_i = 0
    /\ ret = NoResult

\* perform up to the loop: the argument and the output stream.
SeqBegin ==
    /\ pc = "start"
    /\ IF ~single_argument_integer(arguments).ok
       THEN pc' = "seq" /\ ret' = single_argument_integer(arguments)
       ELSE IF ~initialize(receiver).ok
       THEN pc' = "seq" /\ ret' = initialize(receiver)
       ELSE pc' = "loop" /\ ret' = ret
    /\ UNCHANGED <<valueVars, streamVars, this, arguments, output, inflight, receiver, seq_i>>

\* output.send(Row::new(vec![Value::Integer(i)]))? for the next i of 0..c: it
\* waits while the channel is full and fails once the consuming side is gone.
SeqSend ==
    /\ pc = "loop"
    /\ seq_i < single_argument_integer(arguments).v
    /\ IF receiver
       THEN /\ Len(inflight) < ChanCap
            /\ inflight' = Append(inflight, SeqRow(seq_i))
            /\ output' = Append(output, SeqRow(seq_i))
            /\ seq_i' = seq_i + 1
            /\ UNCHANGED <<pc, ret>>
       ELSE /\ pc' = "seq"
            /\ ret' = error("Channel closed")
            /\ UNCHANGED <<inflight, output, seq_i>>
    /\ UNCHANGED <<valueVars, streamVars, this, arguments, receiver>>

\* The range 0..c is used up: Ok(())
SeqReturn ==
    /\ pc = "loop"
    /\ seq_i >= single_argument_integer(arguments).v
    /\ pc' = "seq"
    /\ ret' = Ok("unit")
    /\ UNCHANGED <<valueVars, streamVars, this, arguments, output, inflight, receiver, seq_i>>

\* The consuming side takes the next row.
SeqRecv ==
    /\ receiver
    /\ inflight # <<>>
    /\ inflight' = Tail(inflight)
    /\ UNCHANGED <<valueVars, streamVars, this, arguments, output, receiver, pc, seq_i, ret>>

\* The consuming side drops its last handle.
SeqDrop ==
    /\ receiver
    /\ receiver' = FALSE
    /\ UNCHANGED <<valueVars, streamVars, this, arguments, output, inflight, pc, seq_i, ret>>

SeqNext == SeqBegin \/ SeqSend \/ SeqReturn \/ SeqRecv \/ SeqDrop

SeqSpec == SeqInit /\ [][SeqNext]_vars

\* The producer's thread keeps running, and the consuming side keeps taking
\* rows until it lets go of the stream.
SeqFairSpec ==
    /\ SeqSpec
    /\ WF_vars(SeqBegin \/ SeqSend \/ SeqReturn)
    /\ WF_vars(SeqRecv \/ SeqDrop)

-----------------------------------------------------------------------------
(* Properties of the value operations.                                     *)

\* C1: materialize is idempotent for every Value of every variant:
\* materialize(materialize(v)) == materialize(v) under Value's own equality.
\* Here b is materialize(a) and res is materialize(b).
C1_MaterializeIdempotent == op = "materialize2" => Eq(res, b)

\* The variants the claim C5 lists as hashable.
C5_ListedHashable ==
    {"Text", "Integer", "Time", "Field", "Glob", "Regex", "File", "Duration", "Bool",
     "Binary", "Command"}

C6_AllowList ==
    {<<v, v>> : v \in {"Text", "Integer", "Time", "Duration", "Field", "Glob", "Regex",
                       "Command", "Bool", "Table", "Struct", "File"}}
    \cup {<<"Glob", "Text">>, <<"Text", "Glob">>, <<"Text", "File">>, <<"File", "Text">>}

\* C6 as stated: two values are equal only if their variants are on the
\* allow-list; in particular two List values are never equal.
C6_EqualOnlyListed == (op = "eq" /\ res) => <<a.tag, b.tag>> \in C6_AllowList

\* C6 amended: two values are equal only if their variants are on the
\* allow-list or both are List values; two Binary, two Float and two Empty
\* values are never equal.
C6_EqualOnlyListedOrLists ==
    (op = "eq" /\ res) => <<a.tag, b.tag>> \in (C6_AllowList \cup {<<"List", "List">>})

C6_Witness == op = "eq" /\ a.tag = "List" /\ b.tag = "List" /\ res

\* The variants partial_cmp has a rule for when the types coincide.
C7_Ordered ==
    {"Text", "Field", "Glob", "Regex", "Integer", "Time", "File", "Duration", "Bool",
     "Table", "Struct", "List"}

\* C7: for values of differing ValueType partial_cmp is the order of the two
\* types, never None and never Equal, and reversed when the operands are
\* swapped; for values of the same ValueType that are Command,
\* ConditionCommand, Closure, TableStream or a variant without a rule it is None.
C7_CrossTypeOrder ==
    op = "partial_cmp" =>
        /\ value_type(a) # value_type(b) =>
              /\ res = TypeCmp(value_type(a), value_type(b))
              /\ res \in {"Less", "Greater"}
              /\ PartialCmp(b, a) = Reverse(res)
        /\ (value_type(a) = value_type(b) /\ a.tag \notin C7_Ordered) => res = "None"

C7_Witness ==
    /\ op = "partial_cmp"
    /\ a.tag = "TableStream"
    /\ value_type(a) # value_type(b)
    /\ res = "Less"

\* The digits of an integer literal: the string without its sign.
C8_Digits(s) == IF s # <<>> /\ s[1] \in {43, 45} THEN Tail(s) ELSE s

\* An optional sign followed by one or more decimal digits.
C8_IsLiteral(s) ==
    /\ C8_Digits(s) # <<>>
    /\ \A i \in 1..Len(C8_Digits(s)) : IsDigit(C8_Digits(s)[i])

\* Canonical as the claim words it: no plus sign and no leading zeros.
C8_Canonical(s) ==
    /\ C8_IsLiteral(s)
    /\ s[1] # 43
    /\ Len(C8_Digits(s)) = 1 \/ C8_Digits(s)[1] # 48

\* The part of C8 outside the round trip: Text to Integer succeeds exactly
\* on integer literals and yields the integer written; Text to Time fails;
\* Text to Glob, File and Field succeeds.
C8_TextCasts ==
    (op = "cast" /\ a.tag = "Text") =>
        /\ ty = T("Integer") =>
              /\ res.ok <=> C8_IsLiteral(a.s)
              /\ res.ok =>
                    /\ res.v.tag = "Integer"
                    /\ NatToStr(IF res.v.i < 0 THEN -res.v.i ELSE res.v.i)
                          = StripZeros(C8_Digits(a.s))
                    /\ res.v.i < 0 => a.s[1] = 45
        /\ ty = T("Time") => ~res.ok
        /\ ty \in {T("Glob"), T("File"), T("Field")} => res.ok

\* Whether the state is the end of Text -> Integer -> Text.
C8_RoundTripDone == op = "cast2" /\ a.tag = "Text" /\ b.tag = "Integer" /\ ty = T("Text")

\* C8 as stated: ... and for every canonical integer string s (no leading
\* zeros, no plus sign) casting the Integer back to Text gives a Text equal to s.
C8_RoundTrip ==
    /\ C8_TextCasts
    /\ (C8_RoundTripDone /\ C8_Canonical(a.s)) => (res.ok /\ Eq(res.v, a))

\* C8 amended: the round trip gives back s for every canonical integer
\* string s other than "-0" (no leading zeros, no plus sign, no negative zero).
C8_RoundTripNoNegativeZero ==
    /\ C8_TextCasts
    /\ (C8_RoundTripDone /\ C8_Canonical(a.s) /\ a.s # S(<<"-", "0">>))
          => (res.ok /\ Eq(res.v, a))

C8_Witness ==
    /\ C8_RoundTripDone
    /\ C8_Canonical(a.s)
    /\ b.i < 0
    /\ res.ok
    /\ res.v = a

\* C9: file_expand fails with an ArgumentError both for a TableStream whose
\* schema is not one File column and for every variant other than Text, File,
\* Glob and TableStream; Text and File never fail.
C9_FailsWithArgumentError ==
    op = "file_expand" =>
        /\ (a.tag # "Glob" /\ ~res.r.ok) => res.r.kind = "ArgumentError"
        /\ a.tag \in {"Text", "File"} => res.r.ok
        /\ (a.tag = "TableStream" /\ ~FileExpandAccepts(a.cols)) => ~res.r.ok
        /\ a.tag \notin {"Text", "File", "Glob", "TableStream"} => ~res.r.ok

\* The value of a lowercase hexadecimal digit, -1 for any other character.
C10_HexValue(c) ==
    IF c >= 48 /\ c <= 57 THEN c - 48 ELSE IF c >= 97 /\ c <= 102 THEN c - 87 ELSE -1

\* C10: to_string of a Binary is two lowercase hexadecimal digits per byte,
\* in byte order and without separator, the pair of byte x having the value x.
C10_BinaryToStringIsHex ==
    (op = "to_string" /\ a.tag = "Binary") =>
        /\ Len(res) = 2 * Len(a.bytes)
        /\ \A i \in 1..Len(a.bytes) :
              /\ C10_HexValue(res[2 * i - 1]) >= 0
              /\ C10_HexValue(res[2 * i]) >= 0
              /\ 16 * C10_HexValue(res[2 * i - 1]) + C10_HexValue(res[2 * i]) = a.bytes[i]

-----------------------------------------------------------------------------
(* Properties of the shared TableStream.                                   *)

\* Whether c is the only consumer of the stream.
Sole(c) == \A d \in Consumers \ {c} : cons[d].kind = "none"

\* The first cell of every row of rows, in order.
FirstCells(rows) == [i \in 1..Len(rows) |-> rows[i][1]]

\* C2: cast of a TableStream to List(T) gets past its checks only when the
\* schema is one column of type T and fails otherwise without receiving; it
\* ends only when recv fails, and returns a List of element type T holding the
\* single cell of every row it received, in order; as the only consumer that
\* is every row the producer sent, none dropped or duplicated.
C2_CastToList ==
    \A c \in Consumers :
        cons[c].kind = "cast" =>
            /\ cons[c].pc \in {"loop", "done"} =>
                  (Len(types) = 1 /\ types[1].cell_type = cons[c].elem)
            /\ cons[c].pc = "failed" =>
                  /\ ~(Len(types) = 1 /\ types[1].cell_type = cons[c].elem)
                  /\ ~cons[c].out.ok
                  /\ cons[c].got = <<>>
            /\ cons[c].pc = "done" =>
                  /\ chan = <<>> /\ ~open
                  /\ cons[c].out = Ok(List(cons[c].elem, FirstCells(cons[c].got)))
                  /\ Sole(c) => cons[c].out = Ok(List(cons[c].elem, FirstCells(sent)))

C2_Witness ==
    \E c \in Consumers :
        /\ cons[c].kind = "cast"
        /\ cons[c].pc = "done"
        /\ Sole(c)
        /\ Len(sent) >= 2
        /\ sent[1] # sent[2]

\* C3: file_expand on a TableStream of one File column appends to into,
\* after what it held, exactly one path per row received, in stream order,
\* stops only when the stream is exhausted and leaves what into held unchanged.
C3_OnePathPerRow ==
    \A c \in Consumers :
        (cons[c].kind = "file_expand" /\ cons[c].pc \in {"loop", "done"}) =>
            /\ FileExpandAccepts(types)
            /\ Len(cons[c].acc) = Len(cons[c].init) + Len(cons[c].got)
            /\ SubSeq(cons[c].acc, 1, Len(cons[c].init)) = cons[c].init
            /\ \A i \in 1..Len(cons[c].got) :
                  cons[c].got[i][1].tag = "File" =>
                      cons[c].acc[Len(cons[c].init) + i] = cons[c].got[i][1].s
            /\ cons[c].pc = "done" => (chan = <<>> /\ ~open)

RECURSIVE Interleaves(_, _, _)
\* Whether z is x and y merged, each in its own order.
Interleaves(x, y, z) ==
    IF z = <<>> THEN x = <<>> /\ y = <<>>
    ELSE \/ x # <<>> /\ x[1] = z[1] /\ Interleaves(Tail(x), y, Tail(z))
         \/ y # <<>> /\ y[1] = z[1] /\ Interleaves(x, Tail(y), Tail(z))

\* What a consumer's loop has gathered from the rows recv has returned to it.
C4_Gathered(c) ==
    CASE c.kind = "materialize" -> c.acc = [i \in 1..Len(c.got) |-> RowMaterialize(c.got[i])]
      [] c.kind = "cast" -> c.acc = FirstCells(c.got)
      [] c.kind = "recv" -> c.acc = c.got
      [] OTHER -> TRUE

\* The rows taken out of the channel so far are the rows the two consumers
\* have received, each row by one of them and each consumer's in the order sent.
C4_EachRowOnce ==
    /\ Len(chan) <= Len(sent)
    /\ chan = SubSeq(sent, Len(sent) - Len(chan) + 1, Len(sent))
    /\ Interleaves(cons[1].got, cons[2].got, SubSeq(sent, 1, Len(sent) - Len(chan)))
    /\ \A c \in Consumers : C4_Gathered(cons[c])

C13_Hashed == op = "eq_hash" /\ ~res.self.panic /\ ~res.other.panic

\* Equal values feed the same data to the hasher.
C13_EqualHashEqual == C13_Hashed => (res.eq => res.self = res.other)

\* A hashable value equals itself.
C13_Reflexive == (C13_Hashed /\ a = b) => res.eq

\* C13: Hash is consistent with equality on hashable values: for any two
\* Values a and b whose hashing does not panic, a == b implies that both feed
\* the same data to the hasher (the pairs Glob/Text and Text/File included),
\* and a == a holds for every hashable a.
C13_HashConsistentWithEq == C13_EqualHashEqual /\ C13_Reflexive

-----------------------------------------------------------------------------
(* Properties of the binary methods.                                       *)

\* The 128-bit index handed to getitem, and whether 0 <= idx < len.
C11_Index == IntegerLimbs(arguments[1])
C11_InBounds ==
    (\A k \in 2..I128Limbs : C11_Index[k] = 0) /\ C11_Index[1] < Len(this.bytes)
C11_Applies ==
    pc = "getitem" /\ this.tag = "Binary" /\ Len(arguments) = 1
    /\ arguments[1].tag = "Integer"

\* C11: binary getitem with exactly one integer argument idx sends Integer(b),
\* b the byte at offset idx, when 0 <= idx < len, and fails with "Index out of
\* bounds" and sends nothing for every other 128-bit idx, negative idx and
\* idx >= 2^64 included.
C11_GetitemBounds ==
    C11_Applies =>
        IF C11_InBounds
        THEN receiver =>
                /\ ret = Ok("unit")
                /\ output = <<Integer(this.bytes[C11_Index[1] + 1])>>
        ELSE ret = error("Index out of bounds") /\ output = <<>>

-----------------------------------------------------------------------------
(* Properties of the seq producer.                                         *)

\* The integer argument c of seq.
C12_Count == single_argument_integer(arguments).v
C12_HasCount == single_argument_integer(arguments).ok
C12_Limit == IF C12_Count > 0 THEN C12_Count ELSE 0

\* The rows sent so far are 0, 1, ... in increasing order, fewer than c + 1.
C12_Prefix ==
    C12_HasCount =>
        /\ Len(output) <= C12_Limit
        /\ \A k \in 1..Len(output) : output[k] = <<Integer(k - 1)>>

\* Returning Ok means the whole of 0 .. c-1 was sent.
C12_Whole ==
    (C12_HasCount /\ pc = "seq" /\ ret.ok) => Len(output) = C12_Limit

\* A failed send is returned at once: perform has returned whenever it holds an error.
C12_ErrorReturned == (ret # NoResult /\ ~ret.ok) => pc = "seq"

=============================================================================
